---- MODULE Spec2Model ----
(***************************************************************************)
(* Model of app.py, the Excel named-range dependency viewer: extraction of *)
(* named references from a workbook, dependency inference, dependency      *)
(* graph construction, the memoized language-model calls and the script    *)
(* run that ties them together.                                            *)
(*                                                                         *)
(* A Python string is a sequence of text tokens (single characters, or a   *)
(* fixed piece of text such as a prompt prefix).  The Python value None is *)
(* the one-token sequence None, which no string of the model equals.  A    *)
(* Python dict is a sequence of records with distinct key fields, in       *)
(* insertion order.                                                        *)
(***************************************************************************)
EXTENDS Naturals, Sequences, FiniteSets, TLC

VARIABLES
    wb,            \* the workbook being processed (or BadBytes)
    named_refs,    \* extract_named_references: the dict under construction / returned
    di, dj,        \* extract_named_references: position in defined names / destinations
    pc,            \* control position of the operation being modelled
    dependencies,  \* find_dependencies: the returned map
    dot,           \* create_dependency_graph: the body of the Digraph
    secrets,       \* whether st.secrets holds OPENAI_API_KEY
    extract_cache, \* st.cache_data store of extract_named_references
    deps_cache,    \* st.cache_data store of find_dependencies
    ai_cache,      \* st.cache_data store of generate_ai_outputs
    openai_cache,  \* st.cache_data store of call_openai
    calls,         \* number of requests sent to the service, per prompt
    failed,        \* prompts whose request failed during the current run
    table_rows,    \* generate_ai_outputs: the returned rows
    page,          \* what the current script run has put on the page
    nruns          \* number of script runs so far

vars == <<wb, named_refs, di, dj, pc, dependencies, dot, secrets, extract_cache,
          deps_cache, ai_cache, openai_cache, calls, failed, table_rows, page, nruns>>

----------------------------------------------------------------------------
(* Bounds *)

MaxDests == 2      \* destinations per defined name
MaxDepsLen == 2    \* length of a dependency list given to the graph builder
MaxRuns == 2       \* script runs of one process

----------------------------------------------------------------------------
(* Python values *)

None == <<"None">>

Truthy(v) == v # None /\ v # <<>>

UpperChar(c) ==
    CASE c = "a" -> "A"
      [] c = "b" -> "B"
      [] OTHER -> c

upper(s) == [i \in DOMAIN s |-> UpperChar(s[i])]

\* Python's `p in s` for strings
IsSubstring(p, s) ==
    \E k \in 0..Len(s) : k + Len(p) <= Len(s) /\ SubSeq(s, k + 1, k + Len(p)) = p

\* str.replace("\n", " ")
ReplaceNewline(s) == [i \in DOMAIN s |-> IF s[i] = "\n" THEN " " ELSE s[i]]

Range(s) == {s[i] : i \in DOMAIN s}

SeqsUpTo(S, n) == UNION {[1..k -> S] : k \in 0..n}

\* dict helpers: a dict is a sequence of records with a distinct "name" field
Keys(d) == {d[i].name : i \in DOMAIN d}

IndexOf(d, k) == CHOOSE i \in DOMAIN d : d[i].name = k

Get(d, k) == d[IndexOf(d, k)]

\* d[k] = entry: an existing key keeps its position, a new key goes last
DictSet(d, entry) ==
    IF entry.name \in Keys(d)
    THEN [d EXCEPT ![IndexOf(d, entry.name)] = entry]
    ELSE Append(d, entry)

----------------------------------------------------------------------------
(* Workbooks *)

F1 == <<"=", "A", "+", "1">>
F2 == <<"=", "b", "a">>

FormulaTexts == {F1, F2}

\* the cells of the one sheet of every workbook of the model
TheSheets ==
    [s \in {"S1"} |->
        [a \in {"$A$1", "$A$2", "$A$3"} |->
            CASE a = "$A$1" -> [data_type |-> "f", value |-> F1]
              [] a = "$A$2" -> [data_type |-> "n", value |-> <<"7">>]
              [] a = "$A$3" -> [data_type |-> "f", value |-> F2]]]

CellAddrs == {"$A$1", "$A$2", "$A$3", "$A$4"}

\* (sheet, ref) pairs a defined name can resolve to
Dests ==
    { <<"S1", <<"$A$1">>>>,             \* a formula cell
      <<"S1", <<"$A$2">>>>,             \* a constant cell
      <<"S1", <<"S1", "!", "$A$3">>>>,  \* a formula cell, sheet-qualified address
      <<"Gone", <<"$A$1">>>>,           \* a sheet the workbook does not have
      <<"S1", <<"#REF", "!">>>> }       \* a malformed address

\* the destination of a defined name that points into another workbook
ExtDest == <<"[1]S1", <<"$A$1">>>>

WbNames == {<<"a">>, <<"A", "b">>}

DefinedNames ==
    [name : WbNames, attr_text : {None}, is_external : {FALSE}, destinations : {<<>>}]
    \cup [name : WbNames, attr_text : {<<"text">>}, is_external : {TRUE},
          destinations : {<<ExtDest>>}]
    \cup [name : WbNames, attr_text : {<<"text">>}, is_external : {FALSE},
          destinations : SeqsUpTo(Dests, MaxDests)]

Workbooks ==
    {[defined_names |-> dns, sheets |-> TheSheets] :
        dns \in {s \in SeqsUpTo(DefinedNames, Cardinality(WbNames)) :
                    \A i, j \in DOMAIN s : i # j => s[i].name # s[j].name}}

----------------------------------------------------------------------------
(* extract_named_references *)

\* ref.split('!')[-1]
RECURSIVE SplitLast(_)
SplitLast(ref) ==
    IF \E i \in DOMAIN ref : ref[i] = "!"
    THEN LET i == CHOOSE i \in DOMAIN ref : ref[i] = "!"
         IN  SplitLast(SubSeq(ref, i + 1, Len(ref)))
    ELSE ref

\* _wb[sheet_name] ; sheet[cell_ref] : the cell, or a raised exception
ReadCell(w, sheet_name, ref) ==
    LET cell_ref == SplitLast(ref) IN
    IF sheet_name \notin DOMAIN w.sheets
    THEN [raised |-> TRUE, cell |-> None]                    \* KeyError
    ELSE IF Len(cell_ref) # 1 \/ cell_ref[1] \notin CellAddrs
    THEN [raised |-> TRUE, cell |-> None]                    \* ValueError
    ELSE IF cell_ref[1] \in DOMAIN w.sheets[sheet_name]
    THEN [raised |-> FALSE, cell |-> w.sheets[sheet_name][cell_ref[1]]]
    ELSE [raised |-> FALSE, cell |-> [data_type |-> "n", value |-> None]]

\* variant: the entry of a name already recorded keeps its formula (no reset)
ProcessDestinationKeep(w, refs, name, dest) ==
    LET r == ReadCell(w, dest[1], dest[2])
        prior == IF name \in Keys(refs) THEN Get(refs, name).formula ELSE None
        formula == IF ~r.raised /\ r.cell.data_type = "f" THEN r.cell.value ELSE prior
    IN  DictSet(refs, [name |-> name, sheet |-> dest[1], ref |-> dest[2],
                       formula |-> formula])

\* variant: the entry is recorded only after the cell was read
ProcessDestinationLate(w, refs, name, dest) ==
    LET r == ReadCell(w, dest[1], dest[2]) IN
    IF r.raised THEN refs
    ELSE DictSet(refs, [name |-> name, sheet |-> dest[1], ref |-> dest[2],
                        formula |-> IF r.cell.data_type = "f" THEN r.cell.value
                                    ELSE None])

\* body of the loop over the destinations of one defined name
ProcessDestination(w, refs, name, dest) ==
    LET r == ReadCell(w, dest[1], dest[2])
        formula == IF ~r.raised /\ r.cell.data_type = "f" THEN r.cell.value ELSE None
    IN  DictSet(refs, [name |-> name, sheet |-> dest[1], ref |-> dest[2],
                       formula |-> formula])

\* variant: the is_external flag is not consulted
ConsideredAnyText(dn) == Truthy(dn.attr_text)

\* the condition under which a defined name is processed at all
Considered(dn) == Truthy(dn.attr_text) /\ ~dn.is_external

RECURSIVE ProcessDestinations(_, _, _, _)
ProcessDestinations(w, refs, dn, j) ==
    IF j > Len(dn.destinations) THEN refs
    ELSE ProcessDestinations(w, ProcessDestination(w, refs, dn.name, dn.destinations[j]),
                             dn, j + 1)

RECURSIVE ExtractFrom(_, _, _)
ExtractFrom(w, refs, i) ==
    IF i > Len(w.defined_names) THEN refs
    ELSE LET dn == w.defined_names[i] IN
         ExtractFrom(w, IF Considered(dn) THEN ProcessDestinations(w, refs, dn, 1)
                        ELSE refs, i + 1)

\* the function body, run on a workbook
extract_named_references(w) == ExtractFrom(w, <<>>, 1)

----------------------------------------------------------------------------
(* Values of the variables an operation does not use *)

NoPage ==
    [load_ok |-> FALSE, crashed |-> FALSE, json_shown |-> FALSE, json |-> <<>>,
     chart_shown |-> FALSE, chart |-> <<>>, markdown_shown |-> FALSE,
     markdown |-> <<>>, error_shown |-> FALSE, info_shown |-> FALSE]

EmptyCache == <<>>

ProcessIdle ==
    /\ secrets = TRUE
    /\ extract_cache = EmptyCache
    /\ deps_cache = EmptyCache
    /\ ai_cache = EmptyCache
    /\ openai_cache = EmptyCache
    /\ calls = <<>>
    /\ failed = {}
    /\ table_rows = <<>>
    /\ page = NoPage
    /\ nruns = 0

ProcessVars ==
    <<secrets, extract_cache, deps_cache, ai_cache, openai_cache, calls, failed,
      table_rows, page, nruns>>

----------------------------------------------------------------------------
(* extract_named_references, one destination at a time *)

CurName == wb.defined_names[di]

InitExtract ==
    /\ wb \in Workbooks
    /\ named_refs = <<>>
    /\ di = 1
    /\ dj = 1
    /\ pc = "extract"
    /\ dependencies = <<>>
    /\ dot = <<>>
    /\ ProcessIdle

\* lines 31-44: one iteration of the loop over the destinations
XDest ==
    /\ pc = "extract"
    /\ di <= Len(wb.defined_names)
    /\ Considered(CurName)
    /\ dj <= Len(CurName.destinations)
    /\ named_refs' = ProcessDestination(wb, named_refs, CurName.name,
                                        CurName.destinations[dj])
    /\ dj' = dj + 1
    /\ UNCHANGED <<wb, di, pc, dependencies, dot, ProcessVars>>

\* lines 27-31: the defined name is skipped, or its destinations are exhausted
XNextName ==
    /\ pc = "extract"
    /\ di <= Len(wb.defined_names)
    /\ ~Considered(CurName) \/ dj > Len(CurName.destinations)
    /\ di' = di + 1
    /\ dj' = 1
    /\ UNCHANGED <<wb, named_refs, pc, dependencies, dot, ProcessVars>>

\* line 45
XReturn ==
    /\ pc = "extract"
    /\ di > Len(wb.defined_names)
    /\ pc' = "returned"
    /\ UNCHANGED <<wb, named_refs, di, dj, dependencies, dot, ProcessVars>>

NextExtract == XDest \/ XNextName \/ XReturn

SpecExtract == InitExtract /\ [][NextExtract]_vars

----------------------------------------------------------------------------
(* Claims about extract_named_references *)

DefinedNamesOf(w) == Range(w.defined_names)

LastDest(dn) == dn.destinations[Len(dn.destinations)]

\* the step-wise run returns what the function body computes
ExtractAgrees == pc = "returned" => named_refs = extract_named_references(wb)

\* C2 as stated: the keys of the returned collection are exactly the names of
\* the defined names that have definition text and are not external, and each
\* entry holds the sheet and address of the last destination of its name.
C2_Original ==
    pc = "returned" =>
        /\ Keys(named_refs) =
               {dn.name : dn \in {d \in DefinedNamesOf(wb) :
                                     d.attr_text # None /\ ~d.is_external}}
        /\ Len(named_refs) = Cardinality(Keys(named_refs))
        /\ \A dn \in DefinedNamesOf(wb) :
               (dn.name \in Keys(named_refs) /\ Len(dn.destinations) >= 1) =>
                   /\ Get(named_refs, dn.name).sheet = LastDest(dn)[1]
                   /\ Get(named_refs, dn.name).ref = LastDest(dn)[2]

\* C2 amended: the keys of the returned collection are exactly the names of
\* the defined names that have definition text, are not external and have at
\* least one destination; there is one entry per such name, and it holds the
\* sheet and address of the last destination processed.
C2_Keys ==
    pc = "returned" =>
        /\ Keys(named_refs) =
               {dn.name : dn \in {d \in DefinedNamesOf(wb) :
                                     /\ d.attr_text # None
                                     /\ ~d.is_external
                                     /\ Len(d.destinations) >= 1}}
        /\ Len(named_refs) = Cardinality(Keys(named_refs))
        /\ \A dn \in DefinedNamesOf(wb) :
               dn.name \in Keys(named_refs) =>
                   /\ Get(named_refs, dn.name).sheet = LastDest(dn)[1]
                   /\ Get(named_refs, dn.name).ref = LastDest(dn)[2]

C2_Witness ==
    /\ pc = "returned"
    /\ \E dn \in DefinedNamesOf(wb) :
           /\ dn.name \in Keys(named_refs)
           /\ Len(dn.destinations) = 2
           /\ dn.destinations[1] # dn.destinations[2]
    /\ \E dn \in DefinedNamesOf(wb) : dn.is_external

\* C3: in the returned collection, an entry whose last-processed destination
\* cell is a formula cell has that cell's stored text as its formula, and an
\* entry whose last-processed destination cell is not a formula cell has
\* formula None, whatever an earlier destination of the same name held.
C3_Formula ==
    pc = "returned" =>
        \A dn \in DefinedNamesOf(wb) :
            dn.name \in Keys(named_refs) =>
                LET r == ReadCell(wb, LastDest(dn)[1], LastDest(dn)[2]) IN
                ~r.raised =>
                    /\ r.cell.data_type = "f" =>
                           Get(named_refs, dn.name).formula = r.cell.value
                    /\ r.cell.data_type # "f" =>
                           Get(named_refs, dn.name).formula = None

C3_Witness ==
    /\ pc = "returned"
    /\ \E dn \in DefinedNamesOf(wb) :
           /\ dn.name \in Keys(named_refs)
           /\ Len(dn.destinations) = 2
           /\ dn.destinations[1] = <<"S1", <<"$A$1">>>>
           /\ dn.destinations[2] = <<"S1", <<"$A$2">>>>
           /\ Get(named_refs, dn.name).formula = None
    /\ \E e \in Range(named_refs) : e.formula = F2

\* C9: when reading the cell of a destination raises, the step still records
\* the entry of that name with the destination's sheet and address and
\* formula None, leaves the entries of all other names as they were, and the
\* loop goes on to the next destination.
C9_Swallowed ==
    [][ ( /\ pc = "extract"
          /\ di <= Len(wb.defined_names)
          /\ Considered(CurName)
          /\ dj <= Len(CurName.destinations)
          /\ ReadCell(wb, CurName.destinations[dj][1],
                      CurName.destinations[dj][2]).raised )
        => ( /\ pc' = "extract"
             /\ dj' = dj + 1
             /\ di' = di
             /\ CurName.name \in Keys(named_refs')
             /\ Get(named_refs', CurName.name) =
                    [name |-> CurName.name, sheet |-> CurName.destinations[dj][1],
                     ref |-> CurName.destinations[dj][2], formula |-> None]
             /\ Keys(named_refs') = Keys(named_refs) \cup {CurName.name}
             /\ \A k \in Keys(named_refs) \ {CurName.name} :
                    Get(named_refs', k) = Get(named_refs, k) ) ]_vars

\* a failed destination was swallowed and a later defined name was still
\* extracted, next to an entry recorded before the failure
C9_Witness ==
    /\ pc = "returned"
    /\ Len(wb.defined_names) = 2
    /\ Len(named_refs) = 2
    /\ named_refs[1].formula = F1
    /\ LET dn == wb.defined_names[2] IN
           /\ Len(dn.destinations) = 2
           /\ ReadCell(wb, dn.destinations[1][1], dn.destinations[1][2]).raised
           /\ named_refs[2].formula = F2

----------------------------------------------------------------------------
(* find_dependencies *)

\* variant: the candidate name is searched as written, not upper-cased
find_dependencies_as_written(refs) ==
    [i \in DOMAIN refs |->
        [name |-> refs[i].name,
         deps |-> IF Truthy(refs[i].formula)
                  THEN LET formula == upper(refs[i].formula)
                           names == [k \in DOMAIN refs |-> refs[k].name]
                       IN  SelectSeq(names, LAMBDA other :
                               other # refs[i].name /\ IsSubstring(other, formula))
                  ELSE <<>>]]

\* the function body: the returned dict maps each name to its list "deps"
find_dependencies(refs) ==
    [i \in DOMAIN refs |->
        [name |-> refs[i].name,
         deps |-> IF Truthy(refs[i].formula)
                  THEN LET formula == upper(refs[i].formula)
                           names == [k \in DOMAIN refs |-> refs[k].name]
                       IN  SelectSeq(names, LAMBDA other :
                               other # refs[i].name /\ IsSubstring(upper(other), formula))
                  ELSE <<>>]]

DepNames == {<<"a">>, <<"A">>, <<"b", "a">>}

\* reference collections as extraction returns them: distinct names, a
\* formula text or None
RefCollections ==
    {s \in SeqsUpTo([name : DepNames, sheet : {"S1"}, ref : {<<"$A$1">>},
                     formula : FormulaTexts \cup {None}], Cardinality(DepNames)) :
        \A i, j \in DOMAIN s : i # j => s[i].name # s[j].name}

InitDeps ==
    /\ named_refs \in RefCollections
    /\ dependencies = <<>>
    /\ pc = "deps"
    /\ wb = <<>>
    /\ di = 1
    /\ dj = 1
    /\ dot = <<>>
    /\ ProcessIdle

DoFindDependencies ==
    /\ pc = "deps"
    /\ dependencies' = find_dependencies(named_refs)
    /\ pc' = "deps_done"
    /\ UNCHANGED <<wb, named_refs, di, dj, dot, ProcessVars>>

NextDeps == DoFindDependencies

SpecDeps == InitDeps /\ [][NextDeps]_vars

\* C4: find_dependencies returns a map with the keys of the collection in
\* which, for a reference A with a non-empty formula, B is in deps(A) iff B is
\* a key of the collection, B is not A and the upper-cased B is a substring of
\* the upper-cased formula of A; a reference without formula has the empty
\* list; so A is never in deps(A) and every dependency is a key.
C4_Deps ==
    pc = "deps_done" =>
        /\ [i \in DOMAIN dependencies |-> dependencies[i].name] =
               [i \in DOMAIN named_refs |-> named_refs[i].name]
        /\ \A i \in DOMAIN named_refs :
               LET A == named_refs[i].name
                   formula == named_refs[i].formula
                   deps == Range(Get(dependencies, A).deps)
               IN  /\ (formula # None /\ formula # <<>>) =>
                          \A B \in DepNames \cup Keys(named_refs) :
                              B \in deps <=>
                                  /\ B \in Keys(named_refs)
                                  /\ B # A
                                  /\ IsSubstring(upper(B), upper(formula))
                   /\ (formula = None \/ formula = <<>>) =>
                          Get(dependencies, A).deps = <<>>
                   /\ A \notin deps
                   /\ deps \subseteq Keys(named_refs)

\* a name matched only through upper-casing, a name left out because it is
\* absent from the formula, and a reference whose formula holds its own name
C4_Witness ==
    /\ pc = "deps_done"
    /\ Len(named_refs) = 3
    /\ \E i \in DOMAIN named_refs :
           /\ named_refs[i].name = <<"a">>
           /\ named_refs[i].formula = F1
           /\ Range(dependencies[i].deps) = {<<"A">>}
    /\ \E i \in DOMAIN named_refs :
           named_refs[i].formula = None /\ dependencies[i].deps = <<>>

----------------------------------------------------------------------------
(* create_dependency_graph *)

\* lines 66-68 for the entries i.. of the map: one edge statement per
\* element of each list, in order
RECURSIVE EdgeStatements(_, _)
EdgeStatements(deps, i) ==
    IF i > Len(deps) THEN <<>>
    ELSE [k \in DOMAIN deps[i].deps |-> <<"edge", deps[i].deps[k], deps[i].name>>]
         \o EdgeStatements(deps, i + 1)

\* variant: the edge is drawn from the dependent to the dependency
RECURSIVE EdgeStatementsReversed(_, _)
EdgeStatementsReversed(deps, i) ==
    IF i > Len(deps) THEN <<>>
    ELSE [k \in DOMAIN deps[i].deps |-> <<"edge", deps[i].name, deps[i].deps[k]>>]
         \o EdgeStatementsReversed(deps, i + 1)

create_dependency_graph_reversed(deps) ==
    [i \in DOMAIN deps |-> <<"node", deps[i].name>>] \o EdgeStatementsReversed(deps, 1)

\* the body of the Digraph: node statements, then edge statements
create_dependency_graph(deps) ==
    [i \in DOMAIN deps |-> <<"node", deps[i].name>>] \o EdgeStatements(deps, 1)

GraphKeys == {<<"a">>, <<"A">>}

GraphNames == GraphKeys \cup {<<"b", "a">>}

\* dependency maps: distinct keys, lists that may repeat a name, name the
\* key itself or name a reference that is no key
DepMaps ==
    {s \in SeqsUpTo([name : GraphKeys, deps : SeqsUpTo(GraphNames, MaxDepsLen)],
                    Cardinality(GraphKeys)) :
        \A i, j \in DOMAIN s : i # j => s[i].name # s[j].name}

InitGraph ==
    /\ dependencies \in DepMaps
    /\ dot = <<>>
    /\ pc = "graph"
    /\ wb = <<>>
    /\ named_refs = <<>>
    /\ di = 1
    /\ dj = 1
    /\ ProcessIdle

DoCreateGraph ==
    /\ pc = "graph"
    /\ dot' = create_dependency_graph(dependencies)
    /\ pc' = "graph_done"
    /\ UNCHANGED <<wb, named_refs, di, dj, dependencies, ProcessVars>>

NextGraph == DoCreateGraph

SpecGraph == InitGraph /\ [][NextGraph]_vars

Count(s, x) == Cardinality({i \in DOMAIN s : s[i] = x})

RECURSIVE TotalDeps(_, _)
TotalDeps(deps, i) ==
    IF i > Len(deps) THEN 0 ELSE Len(deps[i].deps) + TotalDeps(deps, i + 1)

\* C5: the graph has exactly one node per key of the dependency map and, for
\* every pair (D, R), as many edges from D to R as D occurs in the list of R,
\* and nothing else.
C5_Graph ==
    pc = "graph_done" =>
        /\ \A n \in GraphNames :
               Count(dot, <<"node", n>>) = IF n \in Keys(dependencies) THEN 1 ELSE 0
        /\ \A D \in GraphNames, R \in GraphNames :
               Count(dot, <<"edge", D, R>>) =
                   IF R \in Keys(dependencies)
                   THEN Count(Get(dependencies, R).deps, D)
                   ELSE 0
        /\ Len(dot) = Len(dependencies) + TotalDeps(dependencies, 1)

\* a list with a repeated dependency gives a double edge, next to a key
\* without any edge
C5_Witness ==
    /\ pc = "graph_done"
    /\ Len(dependencies) = 2
    /\ Get(dependencies, <<"a">>).deps = <<<<"A">>, <<"A">>>>
    /\ Get(dependencies, <<"A">>).deps = <<>>
    /\ Count(dot, <<"edge", <<"A">>, <<"a">>>>) = 2
    /\ Count(dot, <<"node", <<"A">>>>) = 1

----------------------------------------------------------------------------
(* st.cache_data: a store per decorated function, keyed by the values of  *)
(* the parameters whose name does not begin with an underscore             *)

Cached(cache, key) == key \in DOMAIN cache

Store(cache, key, value) == IF key \in DOMAIN cache THEN cache ELSE cache @@ (key :> value)

\* extract_named_references(_wb): _wb is left out of the key
ExtractKey(w) == <<>>

\* find_dependencies(named_refs), generate_ai_outputs(named_refs)
RefsKey(refs) == <<refs>>

MaxTokens == 100

\* call_openai(prompt, max_tokens)
OpenAIKey(prompt) == <<prompt, MaxTokens>>

----------------------------------------------------------------------------
(* call_openai *)

DocPrefix == "Explain what the following Excel formula does:\n"
PyPrefix == "Translate this Excel formula into a clean, readable Python expression:\n"

\* the f-strings of lines 95 and 96; a formula of None would be formatted "None"
DocPrompt(excel_formula) == <<DocPrefix>> \o excel_formula
PyPrompt(excel_formula) == <<PyPrefix>> \o excel_formula

FormulaPrompts == {DocPrompt(f) : f \in FormulaTexts} \cup {PyPrompt(f) : f \in FormulaTexts}

AllPrompts == FormulaPrompts \cup {DocPrompt(None), PyPrompt(None)}

IsSpace(t) == t \in {" ", "\n"}

\* str.strip()
RECURSIVE strip(_)
strip(s) ==
    IF s = <<>> THEN s
    ELSE IF IsSpace(s[1]) THEN strip(Tail(s))
    ELSE IF IsSpace(s[Len(s)]) THEN strip(SubSeq(s, 1, Len(s) - 1))
    ELSE s

\* what the service answers to a prompt when the request succeeds
Content(prompt) == <<" ", "Re:", "\n">> \o Tail(prompt) \o <<"\n">>

\* f"(Error: {e})"
ErrorText == <<"(Error: ", "Connection error.", ")">>

IsErrorPlaceholder(v) == v = ErrorText

\* lines 74-83: the request and the except clause
Request(prompt, fails) == IF prompt \in fails THEN ErrorText ELSE strip(Content(prompt))

\* variant: every call sends a request, the store is only written
CallOpenAIUncached(st, prompt, fails) ==
    LET v == Request(prompt, fails) IN
    [value |-> v,
     openai_cache |-> Store(st.openai_cache, OpenAIKey(prompt), v),
     calls |-> [st.calls EXCEPT ![prompt] = @ + 1],
     failed |-> IF prompt \in fails THEN st.failed \cup {prompt} ELSE st.failed]

\* the memoized call: st holds the store, the request counts and the failures
CallOpenAI(st, prompt, fails) ==
    IF Cached(st.openai_cache, OpenAIKey(prompt))
    THEN [value |-> st.openai_cache[OpenAIKey(prompt)],
          openai_cache |-> st.openai_cache, calls |-> st.calls, failed |-> st.failed]
    ELSE LET v == Request(prompt, fails) IN
         [value |-> v,
          openai_cache |-> Store(st.openai_cache, OpenAIKey(prompt), v),
          calls |-> [st.calls EXCEPT ![prompt] = @ + 1],
          failed |-> IF prompt \in fails THEN st.failed \cup {prompt} ELSE st.failed]

----------------------------------------------------------------------------
(* generate_ai_outputs *)

NoFormulaMsg == <<"No formula.">>

\* lines 89-105 for the references i.. : the rows, and the state of call_openai
RECURSIVE GenerateFrom(_, _, _, _, _)
GenerateFrom(refs, i, rows, st, fails) ==
    IF i > Len(refs) THEN [rows |-> rows, st |-> st]
    ELSE LET excel_formula == refs[i].formula IN
         IF ~Truthy(excel_formula)
         THEN GenerateFrom(refs, i + 1,
                  Append(rows, [name |-> refs[i].name, doc |-> NoFormulaMsg,
                                excel |-> excel_formula, py |-> <<>>]),
                  st, fails)
         ELSE LET c1 == CallOpenAI(st, DocPrompt(excel_formula), fails)
                  c2 == CallOpenAI(c1, PyPrompt(excel_formula), fails)
              IN  GenerateFrom(refs, i + 1,
                      Append(rows, [name |-> refs[i].name, doc |-> c1.value,
                                    excel |-> excel_formula, py |-> c2.value]),
                      c2, fails)

\* the function body
generate_ai_outputs(refs, st, fails) == GenerateFrom(refs, 1, <<>>, st, fails)

----------------------------------------------------------------------------
(* render_markdown_table *)

Headers == << <<"Named Reference">>, <<"AI Documentation">>, <<"Excel Formula">>,
              <<"Python Formula">> >>

\* None has no method replace: lines 116-118 raise AttributeError
RenderRaises(rows) ==
    \E i \in DOMAIN rows : rows[i].doc = None \/ rows[i].excel = None \/ rows[i].py = None

\* the lines of the table: header, separator, one line per row
render_markdown_table(rows) ==
    <<Headers, [k \in DOMAIN Headers |-> <<"---">>]>>
    \o [i \in DOMAIN rows |->
           <<rows[i].name, ReplaceNewline(rows[i].doc), ReplaceNewline(rows[i].excel),
             ReplaceNewline(rows[i].py)>>]

----------------------------------------------------------------------------
(* The script: one run per upload *)

NoFile == [upload |-> "none"]
BadBytes == [upload |-> "not a workbook"]

\* the workbooks uploaded in the runs of the script: every defined name has
\* at most one destination, and its cell can be read
UploadWorkbooks ==
    {w \in Workbooks :
        \A i \in DOMAIN w.defined_names :
            LET ds == w.defined_names[i].destinations IN
            /\ Len(ds) <= 1
            /\ (Len(ds) = 1 /\ ~w.defined_names[i].is_external) =>
                   ~ReadCell(w, ds[1][1], ds[1][2]).raised}

Uploads == UploadWorkbooks \cup {NoFile, BadBytes}

Init ==
    /\ secrets \in BOOLEAN
    /\ wb = NoFile
    /\ named_refs = <<>>
    /\ di = 1
    /\ dj = 1
    /\ pc = "idle"
    /\ dependencies = <<>>
    /\ dot = <<>>
    /\ extract_cache = EmptyCache
    /\ deps_cache = EmptyCache
    /\ ai_cache = EmptyCache
    /\ openai_cache = EmptyCache
    /\ calls = [p \in AllPrompts |-> 0]
    /\ failed = {}
    /\ table_rows = <<>>
    /\ page = NoPage
    /\ nruns = 0

\* line 21: st.secrets has no OPENAI_API_KEY, the script stops with the exception
RunWithoutKey(upload) ==
    /\ nruns < MaxRuns
    /\ ~secrets
    /\ wb' = upload
    /\ page' = [NoPage EXCEPT !.crashed = TRUE]
    /\ failed' = {}
    /\ nruns' = nruns + 1
    /\ pc' = "crashed"
    /\ UNCHANGED <<named_refs, di, dj, dependencies, dot, secrets, extract_cache,
                   deps_cache, ai_cache, openai_cache, calls, table_rows>>

\* lines 147-148: no file has been uploaded
RunNoFile ==
    /\ nruns < MaxRuns
    /\ secrets
    /\ wb' = NoFile
    /\ page' = [NoPage EXCEPT !.info_shown = TRUE]
    /\ failed' = {}
    /\ nruns' = nruns + 1
    /\ pc' = "done"
    /\ UNCHANGED <<named_refs, di, dj, dependencies, dot, secrets, extract_cache,
                   deps_cache, ai_cache, openai_cache, calls, table_rows>>

\* lines 129, 145-146: load_workbook raises
RunLoadFails ==
    /\ nruns < MaxRuns
    /\ secrets
    /\ wb' = BadBytes
    /\ page' = [NoPage EXCEPT !.error_shown = TRUE]
    /\ failed' = {}
    /\ nruns' = nruns + 1
    /\ pc' = "done"
    /\ UNCHANGED <<named_refs, di, dj, dependencies, dot, secrets, extract_cache,
                   deps_cache, ai_cache, openai_cache, calls, table_rows>>

\* lines 127-146 for a file that loads; fails is the set of prompts whose
\* request, sent during this run, ends in an exception
RunPipeline(upload, fails) ==
    /\ nruns < MaxRuns
    /\ secrets
    /\ upload \in UploadWorkbooks
    /\ LET refs == IF Cached(extract_cache, ExtractKey(upload))
                   THEN extract_cache[ExtractKey(upload)]
                   ELSE extract_named_references(upload)
           deps == IF Cached(deps_cache, RefsKey(refs))
                   THEN deps_cache[RefsKey(refs)]
                   ELSE find_dependencies(refs)
           st0 == [openai_cache |-> openai_cache, calls |-> calls, failed |-> {}]
           hit == Cached(ai_cache, RefsKey(refs))
           gen == IF hit THEN [rows |-> ai_cache[RefsKey(refs)], st |-> st0]
                  ELSE generate_ai_outputs(refs, st0, fails)
           raises == RenderRaises(gen.rows)
       IN  /\ wb' = upload
           /\ named_refs' = refs
           /\ extract_cache' = Store(extract_cache, ExtractKey(upload), refs)
           /\ dependencies' = deps
           /\ deps_cache' = Store(deps_cache, RefsKey(refs), deps)
           /\ dot' = create_dependency_graph(deps)
           /\ table_rows' = gen.rows
           /\ ai_cache' = Store(ai_cache, RefsKey(refs), gen.rows)
           /\ openai_cache' = gen.st.openai_cache
           /\ calls' = gen.st.calls
           /\ failed' = gen.st.failed
           /\ page' = [NoPage EXCEPT
                         !.load_ok = TRUE,
                         !.json_shown = TRUE,
                         !.json = refs,
                         !.chart_shown = TRUE,
                         !.chart = create_dependency_graph(deps),
                         !.markdown_shown = ~raises,
                         !.markdown = IF raises THEN <<>>
                                      ELSE render_markdown_table(gen.rows),
                         !.error_shown = raises]
    /\ nruns' = nruns + 1
    /\ pc' = "done"
    /\ UNCHANGED <<di, dj, secrets>>

\* the prompts for which the run of this upload sends a request
Requested(upload) ==
    LET refs == IF Cached(extract_cache, ExtractKey(upload))
                THEN extract_cache[ExtractKey(upload)]
                ELSE extract_named_references(upload)
        formulas == {refs[i].formula : i \in DOMAIN refs} \cap FormulaTexts
    IN  IF Cached(ai_cache, RefsKey(refs)) THEN {}
        ELSE {p \in {DocPrompt(f) : f \in formulas} \cup {PyPrompt(f) : f \in formulas} :
                 ~Cached(openai_cache, OpenAIKey(p))}

Next ==
    \/ \E upload \in Uploads : RunWithoutKey(upload)
    \/ RunNoFile
    \/ RunLoadFails
    \/ \E upload \in UploadWorkbooks :
           \E fails \in SUBSET Requested(upload) : RunPipeline(upload, fails)

Spec == Init /\ [][Next]_vars

----------------------------------------------------------------------------
(* Claims about the script and the memoized functions *)

\* the run took the path of a file that loaded
Processed == pc = "done" /\ page.load_ok

\* C1: in every run that shows a reference collection, the collection returned
\* by the memoized extract_named_references equals what the function body
\* returns for the workbook of that run.
C1_Memoized ==
    Processed => page.json = extract_named_references(wb)

\* C6: once the workbook has loaded, the run shows the reference collection,
\* the graph and the table, and the top-level failure message is shown only
\* when loading the workbook fails.
C6_OnlyLoadFatal ==
    /\ page.error_shown => ~page.load_ok
    /\ page.load_ok =>
           page.json_shown /\ page.chart_shown /\ page.markdown_shown

\* C7: when a request to the service fails during a run, the failed call
\* yields the error placeholder, the placeholder is the cell of the rows
\* whose prompt failed, and the run still shows the reference collection, the
\* graph and the table with the raw formula of every reference.
C7_Degrades ==
    failed # {} =>
        /\ \A p \in failed : openai_cache[OpenAIKey(p)] = ErrorText
        /\ page.json_shown
        /\ page.chart_shown
        /\ page.markdown_shown
        /\ Len(table_rows) = Len(page.json)
        /\ \A i \in DOMAIN table_rows :
               /\ page.json[i].formula # None =>
                      table_rows[i].excel = page.json[i].formula
               /\ DocPrompt(table_rows[i].excel) \in failed =>
                      IsErrorPlaceholder(table_rows[i].doc)
               /\ PyPrompt(table_rows[i].excel) \in failed =>
                      IsErrorPlaceholder(table_rows[i].py)

\* C8: over all runs of the process, at most one request is sent to the
\* service for each pair of a formula and a prompt kind, also when the first
\* request ended in the error placeholder, and none is sent for a reference
\* without formula.
C8_AtMostOnce ==
    /\ \A f \in FormulaTexts : calls[DocPrompt(f)] <= 1 /\ calls[PyPrompt(f)] <= 1
    /\ calls[DocPrompt(None)] = 0
    /\ calls[PyPrompt(None)] = 0

\* two rows share a formula whose documentation request failed once; a
\* second run has been served and the request was not repeated
C8_Witness ==
    /\ nruns = 2
    /\ Processed
    /\ Len(table_rows) = 2
    /\ table_rows[1].excel = F1
    /\ table_rows[2].excel = F1
    /\ calls[DocPrompt(F1)] = 1
    /\ calls[PyPrompt(F1)] = 1
    /\ IsErrorPlaceholder(openai_cache[OpenAIKey(DocPrompt(F1))])
    /\ IsErrorPlaceholder(table_rows[2].doc)

\* C10: generate_ai_outputs returns one row per reference, in the order of
\* the collection, whose documentation, Excel formula and translated
\* expression are strings; a reference without formula has the fixed message
\* as documentation and the empty string as Excel formula and as translation.
C10_Rows ==
    Processed =>
        /\ [i \in DOMAIN table_rows |-> table_rows[i].name] =
               [i \in DOMAIN named_refs |-> named_refs[i].name]
        /\ \A i \in DOMAIN table_rows :
               /\ table_rows[i].doc # None
               /\ table_rows[i].excel # None
               /\ table_rows[i].py # None
               /\ named_refs[i].formula = None =>
                      /\ table_rows[i].doc = NoFormulaMsg
                      /\ table_rows[i].excel = <<>>
                      /\ table_rows[i].py = <<>>

====
